---- MODULE Spec2Model ----
(***************************************************************************)
(* Model of the OAuth token gate (src/src/auth.py) and the resilient API   *)
(* client (src/src/api_client.py) of Spotify-Listening_Insights.           *)
(*                                                                         *)
(* Time is counted in ticks of 0.1 second, the resolution of the shortest  *)
(* sleep of the client (time.sleep(0.1)): time.time() is `now`, and every  *)
(* duration of the source is written in ticks.                             *)
(***************************************************************************)
EXTENDS Integers, Sequences, FiniteSets, TLC

(* ---------------------------- program constants ------------------------ *)

TicksPerSecond == 10
\* auth.py:188, the refresh-ahead margin of 60 seconds
Margin == 600
\* auth.py:223, expires_in defaults to 3600 seconds
DefaultExpiresIn == 36000
\* api_client.py:36, max_retries = 3
MaxRetries == 3
\* api_client.py:36, delay = 1.0 second
Delay == 10
\* api_client.py:160, batches of 20 ids
BatchSize == 20
\* api_client.py:172, time.sleep(0.1) before every per-item request
ItemDelay == 1
\* api_client.py:186, time.sleep(0.2) between batches
BatchDelay == 2

(* ------------------------------- bounds -------------------------------- *)

\* public method calls made on the client in one run
MaxCalls == 2
\* public method calls start, and idle time passes, up to this instant
MaxNow == 10
\* token-endpoint requests in one run
MaxTokenReqs == 3
\* pages of a paginated result set
MaxPages == 3
\* track ids handed to get_audio_features_for_tracks
MaxIds == 45
\* key=value pairs in a redirect URL
MaxParams == 2
\* the clock of two racing processes is followed up to this time, in ticks
MaxRaceNow == 30

(* ------------------------------ token store ---------------------------- *)

\* a refresh_token key that is not in the record / response
NoRT == 0
\* an expires_in key that is not in the response
NoExp == -1
\* self._access_token / self._spotipy_client is None
None == 0

TokenRecord(at, rt, exp) ==
    [state |-> "ok", access_token |-> at, refresh_token |-> rt, expires_at |-> exp]

\* the token file does not exist
MissingFile ==
    [state |-> "missing", access_token |-> 0, refresh_token |-> NoRT, expires_at |-> 0]
\* the token file exists and is not JSON
CorruptFile ==
    [state |-> "corrupt", access_token |-> 0, refresh_token |-> NoRT, expires_at |-> 0]

\* the token file holds the empty JSON object {}
EmptyFile ==
    [state |-> "empty", access_token |-> 0, refresh_token |-> NoRT, expires_at |-> 0]

\* the token file holds bytes that are not text in the encoding of open()
UndecodableFile ==
    [state |-> "undecodable", access_token |-> 0, refresh_token |-> NoRT, expires_at |-> 0]

\* load_tokens: None (here FALSE in `found`) for a missing file and for one
\* that json.load rejects with JSONDecodeError; the UnicodeDecodeError that
\* reading undecodable bytes raises is not among the exceptions caught.
\* `file` is the token file afterwards.
load_tokens(file) ==
    IF file.state = "missing"
    THEN [found |-> FALSE, raised |-> FALSE, rec |-> file, file |-> file]
    ELSE IF file.state = "corrupt"
    THEN [found |-> FALSE, raised |-> FALSE, rec |-> file, file |-> file]
    ELSE IF file.state = "undecodable"
    THEN [found |-> FALSE, raised |-> TRUE, rec |-> file, file |-> file]
    ELSE [found |-> TRUE, raised |-> FALSE, rec |-> file, file |-> file]

\* load_tokens returns a token record from this file
Loadable(file) == load_tokens(file).found /\ load_tokens(file).rec.state = "ok"

\* open(filepath, "w"): the file is created or cut to no bytes, which is not
\* JSON, and stays so until json.dump has written the record
open_for_writing(file) == CorruptFile

\* save_tokens: the file is opened for writing and the record dumped into it
save_tokens(token_data) ==
    [state |-> "ok", access_token |-> token_data.access_token,
     refresh_token |-> token_data.refresh_token, expires_at |-> token_data.expires_at]

\* faulty variant: a token is still taken as valid at the margin itself
is_token_expired_after_margin(token_data, t) == t > token_data.expires_at - Margin

\* is_token_expired: time.time() >= expires_at - 60
is_token_expired(token_data, t) == t >= token_data.expires_at - Margin

\* The answers of the token endpoint to a refresh request.  tok is the
\* identity of the access token (and of the rotated refresh token) it issues.
RefreshFailure == [ok |-> FALSE, rotate |-> FALSE, expires_in |-> NoExp]
RefreshResponses ==
    {RefreshFailure} \cup
    [ok : {TRUE}, rotate : BOOLEAN, expires_in : {NoExp, 300}]

\* faulty variant: the record is built from the answer alone, so the refresh
\* token is lost when the answer has none
refresh_access_token_from_answer_only(refresh_token, t, resp, tok) ==
    IF ~resp.ok THEN [raised |-> TRUE, rec |-> MissingFile]
    ELSE [raised |-> FALSE,
          rec |-> TokenRecord(
                    tok,
                    IF resp.rotate THEN tok ELSE NoRT,
                    t + (IF resp.expires_in = NoExp THEN DefaultExpiresIn
                                                    ELSE resp.expires_in))]

\* refresh_access_token: one POST to the token endpoint; raise_for_status
\* raises on a non-success answer; the old refresh token is kept when the
\* answer has none; expires_at = time.time() + expires_in (default 3600)
refresh_access_token(refresh_token, t, resp, tok) ==
    IF ~resp.ok THEN [raised |-> TRUE, rec |-> MissingFile]
    ELSE [raised |-> FALSE,
          rec |-> TokenRecord(
                    tok,
                    IF resp.rotate THEN tok ELSE refresh_token,
                    t + (IF resp.expires_in = NoExp THEN DefaultExpiresIn
                                                    ELSE resp.expires_in))]

\* faulty variant: the refreshed record is returned but not written
get_valid_token_without_save(file, t, resp, tok) ==
    LET l == load_tokens(file) IN
    IF l.raised
    THEN [err |-> "UnicodeDecodeError", token |-> None, rec |-> file, file |-> file,
          reqs |-> 0]
    ELSE IF ~l.found \/ l.rec.state = "empty"
    THEN [err |-> "NoToken", token |-> None, rec |-> file, file |-> file, reqs |-> 0]
    ELSE IF is_token_expired(l.rec, t)
    THEN IF l.rec.refresh_token = NoRT
         THEN [err |-> "NoRefreshToken", token |-> None, rec |-> l.rec,
               file |-> file, reqs |-> 0]
         ELSE LET r == refresh_access_token(l.rec.refresh_token, t, resp, tok) IN
              IF r.raised
              THEN [err |-> "RefreshFailed", token |-> None, rec |-> l.rec,
                    file |-> file, reqs |-> 1]
              ELSE [err |-> "", token |-> r.rec.access_token, rec |-> r.rec,
                    file |-> file, reqs |-> 1]
    ELSE [err |-> "", token |-> l.rec.access_token, rec |-> l.rec,
          file |-> file, reqs |-> 0]


\* faulty variant: a refresh is asked for even without a refresh token
get_valid_token_refreshing_without_token(file, t, resp, tok) ==
    LET l == load_tokens(file) IN
    IF l.raised
    THEN [err |-> "UnicodeDecodeError", token |-> None, rec |-> file, file |-> file,
          reqs |-> 0]
    ELSE IF ~l.found \/ l.rec.state = "empty"
    THEN [err |-> "NoToken", token |-> None, rec |-> file, file |-> file, reqs |-> 0]
    ELSE IF is_token_expired(l.rec, t)
    THEN IF l.rec.refresh_token = NoRT
         THEN [err |-> "NoRefreshToken", token |-> None, rec |-> l.rec,
               file |-> file, reqs |-> 1]
         ELSE LET r == refresh_access_token(l.rec.refresh_token, t, resp, tok) IN
              IF r.raised
              THEN [err |-> "RefreshFailed", token |-> None, rec |-> l.rec,
                    file |-> file, reqs |-> 1]
              ELSE [err |-> "", token |-> r.rec.access_token, rec |-> r.rec,
                    file |-> save_tokens(r.rec), reqs |-> 1]
    ELSE [err |-> "", token |-> l.rec.access_token, rec |-> l.rec,
          file |-> file, reqs |-> 0]


\* faulty variant: a failed refresh clears the token file
get_valid_token_clearing_on_failure(file, t, resp, tok) ==
    LET l == load_tokens(file) IN
    IF l.raised
    THEN [err |-> "UnicodeDecodeError", token |-> None, rec |-> file, file |-> file,
          reqs |-> 0]
    ELSE IF ~l.found \/ l.rec.state = "empty"
    THEN [err |-> "NoToken", token |-> None, rec |-> file, file |-> file, reqs |-> 0]
    ELSE IF is_token_expired(l.rec, t)
    THEN IF l.rec.refresh_token = NoRT
         THEN [err |-> "NoRefreshToken", token |-> None, rec |-> l.rec,
               file |-> file, reqs |-> 0]
         ELSE LET r == refresh_access_token(l.rec.refresh_token, t, resp, tok) IN
              IF r.raised
              THEN [err |-> "RefreshFailed", token |-> None, rec |-> l.rec,
                    file |-> MissingFile, reqs |-> 1]
              ELSE [err |-> "", token |-> r.rec.access_token, rec |-> r.rec,
                    file |-> save_tokens(r.rec), reqs |-> 1]
    ELSE [err |-> "", token |-> l.rec.access_token, rec |-> l.rec,
          file |-> file, reqs |-> 0]


\* faulty variant: the token endpoint is asked although the token is valid
get_valid_token_asking_anyway(file, t, resp, tok) ==
    LET l == load_tokens(file) IN
    IF l.raised
    THEN [err |-> "UnicodeDecodeError", token |-> None, rec |-> file, file |-> file,
          reqs |-> 0]
    ELSE IF ~l.found \/ l.rec.state = "empty"
    THEN [err |-> "NoToken", token |-> None, rec |-> file, file |-> file, reqs |-> 0]
    ELSE IF is_token_expired(l.rec, t)
    THEN IF l.rec.refresh_token = NoRT
         THEN [err |-> "NoRefreshToken", token |-> None, rec |-> l.rec,
               file |-> file, reqs |-> 0]
         ELSE LET r == refresh_access_token(l.rec.refresh_token, t, resp, tok) IN
              IF r.raised
              THEN [err |-> "RefreshFailed", token |-> None, rec |-> l.rec,
                    file |-> file, reqs |-> 1]
              ELSE [err |-> "", token |-> r.rec.access_token, rec |-> r.rec,
                    file |-> save_tokens(r.rec), reqs |-> 1]
    ELSE [err |-> "", token |-> l.rec.access_token, rec |-> l.rec,
          file |-> file, reqs |-> 1]

\* get_valid_token: the token validity gate; `not token_data` holds for None
\* and for the empty record.  Result: the error ("" when it returns), the
\* access token returned, the record it belongs to, the token file afterwards
\* and the number of token-endpoint requests issued.
get_valid_token(file, t, resp, tok) ==
    LET l == load_tokens(file) IN
    IF l.raised
    THEN [err |-> "UnicodeDecodeError", token |-> None, rec |-> file, file |-> file,
          reqs |-> 0]
    ELSE IF ~l.found \/ l.rec.state = "empty"
    THEN [err |-> "NoToken", token |-> None, rec |-> file, file |-> file, reqs |-> 0]
    ELSE IF is_token_expired(l.rec, t)
    THEN IF l.rec.refresh_token = NoRT
         THEN [err |-> "NoRefreshToken", token |-> None, rec |-> l.rec,
               file |-> file, reqs |-> 0]
         ELSE LET r == refresh_access_token(l.rec.refresh_token, t, resp, tok) IN
              IF r.raised
              THEN [err |-> "RefreshFailed", token |-> None, rec |-> l.rec,
                    file |-> file, reqs |-> 1]
              ELSE [err |-> "", token |-> r.rec.access_token, rec |-> r.rec,
                    file |-> save_tokens(r.rec), reqs |-> 1]
    ELSE [err |-> "", token |-> l.rec.access_token, rec |-> l.rec,
          file |-> file, reqs |-> 0]

\* The redirect URL is its query string: the sequence of its key=value pairs.
Param(k, v) == [k |-> k, v |-> v]

RECURSIVE ValuesOf(_, _)
\* parse_qs(query)[k]: the values given to k, in order; a pair with a blank
\* value is dropped (keep_blank_values is False), and k is a key of the
\* result when the sequence is not empty
ValuesOf(query, k) ==
    IF query = <<>> THEN <<>>
    ELSE LET p == Head(query) IN
         (IF p.k = k /\ p.v # "" THEN <<p.v>> ELSE <<>>) \o ValuesOf(Tail(query), k)

\* faulty variant: the last value given to `code` is returned
extract_code_from_url_last(redirect_url) ==
    LET code == ValuesOf(redirect_url, "code")
        error == ValuesOf(redirect_url, "error") IN
    IF code = <<>>
    THEN IF error # <<>>
         THEN [err |-> "AuthorizationFailed", msg |-> error[1], code |-> ""]
         ELSE [err |-> "NoCode", msg |-> "", code |-> ""]
    ELSE [err |-> "", msg |-> "", code |-> code[Len(code)]]

\* extract_code_from_url: `code` is looked for first; without it the URL's
\* `error` gives ValueError("Authorization failed: <error>"), and without
\* both ValueError("No authorization code found in redirect URL")
extract_code_from_url(redirect_url) ==
    LET code == ValuesOf(redirect_url, "code")
        error == ValuesOf(redirect_url, "error") IN
    IF code = <<>>
    THEN IF error # <<>>
         THEN [err |-> "AuthorizationFailed", msg |-> error[1], code |-> ""]
         ELSE [err |-> "NoCode", msg |-> "", code |-> ""]
    ELSE [err |-> "", msg |-> "", code |-> code[1]]

\* The answers of the token endpoint to a code exchange: as to a refresh,
\* `rotate` telling whether the answer carries a refresh token.
ExchangeResponses == RefreshResponses

\* exchange_code_for_token: one POST to the token endpoint; raise_for_status
\* raises on a non-success answer; expires_at = time.time() + expires_in
\* (default 3600) is added to the answer, which is the record
exchange_code_for_token(code, t, resp, tok) ==
    IF ~resp.ok THEN [raised |-> TRUE, rec |-> MissingFile]
    ELSE [raised |-> FALSE,
          rec |-> TokenRecord(
                    tok,
                    IF resp.rotate THEN tok ELSE NoRT,
                    t + (IF resp.expires_in = NoExp THEN DefaultExpiresIn
                                                    ELSE resp.expires_in))]

\* the steps of authenticate before the redirect URL is read
Prompted(interactive) ==
    <<"build_auth_url">> \o (IF interactive THEN <<"browser">> ELSE <<>>) \o <<"prompt">>

\* faulty variant: the code is exchanged before the URL is looked at
authenticate_exchanging_first(file, t, interactive, redirect_url, resp, tok) ==
    LET x == extract_code_from_url(redirect_url)
        e == exchange_code_for_token(x.code, t, resp, tok) IN
    IF x.err # ""
    THEN [err |-> x.err, msg |-> x.msg, rec |-> MissingFile, file |-> file, reqs |-> 1,
          events |-> Prompted(interactive) \o <<"exchange", "extract">>]
    ELSE IF e.raised
    THEN [err |-> "ExchangeFailed", msg |-> "", rec |-> MissingFile, file |-> file,
          reqs |-> 1,
          events |-> Prompted(interactive) \o <<"exchange", "extract">>]
    ELSE [err |-> "", msg |-> "", rec |-> e.rec, file |-> save_tokens(e.rec),
          reqs |-> 1,
          events |-> Prompted(interactive) \o <<"exchange", "extract", "save">>]

\* faulty variant: a flow that fails removes the token file
authenticate_clearing_on_failure(file, t, interactive, redirect_url, resp, tok) ==
    LET x == extract_code_from_url(redirect_url) IN
    IF x.err # ""
    THEN [err |-> x.err, msg |-> x.msg, rec |-> MissingFile, file |-> MissingFile, reqs |-> 0,
          events |-> Prompted(interactive) \o <<"extract">>]
    ELSE LET e == exchange_code_for_token(x.code, t, resp, tok) IN
         IF e.raised
         THEN [err |-> "ExchangeFailed", msg |-> "", rec |-> MissingFile, file |-> MissingFile,
               reqs |-> 1,
               events |-> Prompted(interactive) \o <<"extract", "exchange">>]
         ELSE [err |-> "", msg |-> "", rec |-> e.rec, file |-> save_tokens(e.rec),
               reqs |-> 1,
               events |-> Prompted(interactive) \o <<"extract", "exchange", "save">>]

\* authenticate: the URL is built and shown, the redirect URL is read, then
\* inside one try: extract_code_from_url, exchange_code_for_token,
\* save_tokens, return; any exception is printed and raised again.  Result:
\* the error ("" when it returns), the record returned, the token file
\* afterwards, the token-endpoint requests issued and the steps taken.
authenticate(file, t, interactive, redirect_url, resp, tok) ==
    LET x == extract_code_from_url(redirect_url) IN
    IF x.err # ""
    THEN [err |-> x.err, msg |-> x.msg, rec |-> MissingFile, file |-> file, reqs |-> 0,
          events |-> Prompted(interactive) \o <<"extract">>]
    ELSE LET e == exchange_code_for_token(x.code, t, resp, tok) IN
         IF e.raised
         THEN [err |-> "ExchangeFailed", msg |-> "", rec |-> MissingFile, file |-> file,
               reqs |-> 1,
               events |-> Prompted(interactive) \o <<"extract", "exchange">>]
         ELSE [err |-> "", msg |-> "", rec |-> e.rec, file |-> save_tokens(e.rec),
               reqs |-> 1,
               events |-> Prompted(interactive) \o <<"extract", "exchange", "save">>]

\* authenticate.py run as a script: load_tokens(); a record that is truthy
\* is reported, otherwise (None, or the record {}) authenticate(interactive
\* = True) is run; an exception of load_tokens or authenticate ends the script
bootstrap(file, t, redirect_url, resp, tok) ==
    LET l == load_tokens(file)
        a == authenticate(file, t, TRUE, redirect_url, resp, tok) IN
    IF l.raised
    THEN [err |-> "UnicodeDecodeError", msg |-> "", rec |-> MissingFile, file |-> file,
          reqs |-> 0, events |-> <<"load_tokens">>]
    ELSE IF l.found /\ l.rec.state # "empty"
    THEN [err |-> "", msg |-> "", rec |-> l.rec, file |-> file, reqs |-> 0,
          events |-> <<"load_tokens", "report">>]
    ELSE [a EXCEPT !.events = <<"load_tokens">> \o a.events]

(* ------------------------- outcomes of a data request ------------------- *)

\* a response without a Retry-After header
NoHint == -1

Ok == [kind |-> "ok", status |-> 200, hint |-> NoHint]
\* spotipy.SpotifyException with its http_status and Retry-After header
SpotifyException(status, hint) == [kind |-> "spotify", status |-> status, hint |-> hint]
\* any exception that is not a SpotifyException (network, parsing)
OtherException == [kind |-> "other", status |-> 0, hint |-> NoHint]
\* Exception("Max retries exceeded"), api_client.py:76
MaxRetriesExceeded == [kind |-> "generic", status |-> 0, hint |-> NoHint]
\* ValueError of get_valid_token
TokenError == [kind |-> "ValueError", status |-> 0, hint |-> NoHint]

RateLimits == {SpotifyException(429, h) : h \in {NoHint, 2}}
ServerErrors == {SpotifyException(s, NoHint) : s \in {500}}
ClientErrors == {SpotifyException(s, NoHint) : s \in {404}}
Failures == RateLimits \cup ServerErrors \cup ClientErrors \cup {OtherException}
Outcomes == {Ok} \cup Failures

Pow2(n) == IF n <= 0 THEN 1 ELSE IF n = 1 THEN 2 ELSE IF n = 2 THEN 4 ELSE 8

\* faulty variant: the Retry-After header is not read
retry_after_ignoring_header(o) == Delay \div TicksPerSecond

\* int(e.headers.get("Retry-After", delay)), in seconds: the header is a
\* string of decimal digits, the default is the float delay truncated
retry_after(o) == IF o.hint = NoHint THEN Delay \div TicksPerSecond ELSE o.hint

\* faulty variant: the delay does not grow with the attempt
backoff_constant(attempt) == Delay

\* delay * (2 ** attempt)
backoff(attempt) == Delay * Pow2(attempt)

\* faulty variant: the guards read `attempt < max_retries`, so the last
\* attempt sleeps as well and the loop runs out
on_failure_sleeping_last(o, attempt) ==
    IF o.kind = "spotify" /\ o.status # 429 /\ o.status < 500
    THEN [act |-> "raise", wait |-> 0]
    ELSE IF attempt < MaxRetries
    THEN [act |-> "retry",
          wait |-> IF o.kind = "spotify" /\ o.status = 429
                   THEN retry_after(o) * TicksPerSecond ELSE backoff(attempt)]
    ELSE [act |-> "raise", wait |-> 0]

\* faulty variant: a SpotifyException that is neither a 429 nor a 5xx takes
\* the path of `except Exception` instead of being re-raised
on_failure_retrying_all(o, attempt) ==
    IF attempt < MaxRetries - 1
    THEN [act |-> "retry",
          wait |-> IF o.kind = "spotify" /\ o.status = 429
                   THEN retry_after(o) * TicksPerSecond ELSE backoff(attempt)]
    ELSE [act |-> "raise", wait |-> 0]

\* The except clauses of _retry_request for a failure o of attempt number
\* `attempt`: sleep `wait` ticks and go on with the loop, or re-raise o.
on_failure(o, attempt) ==
    IF o.kind = "spotify"
    THEN IF o.status = 429
         THEN IF attempt < MaxRetries - 1
              THEN [act |-> "retry", wait |-> retry_after(o) * TicksPerSecond]
              ELSE [act |-> "raise", wait |-> 0]
         ELSE IF o.status >= 500
         THEN IF attempt < MaxRetries - 1
              THEN [act |-> "retry", wait |-> backoff(attempt)]
              ELSE [act |-> "raise", wait |-> 0]
         ELSE [act |-> "raise", wait |-> 0]
    ELSE IF attempt < MaxRetries - 1
         THEN [act |-> "retry", wait |-> backoff(attempt)]
         ELSE [act |-> "raise", wait |-> 0]

(* ------------------------------ result sets ---------------------------- *)

RECURSIVE Sum(_)
Sum(s) == IF s = <<>> THEN 0 ELSE Head(s) + Sum(Tail(s))

RECURSIVE Concat(_)
Concat(ps) == IF ps = <<>> THEN <<>> ELSE Head(ps) \o Concat(Tail(ps))

\* items k+1 .. k+n
Range(k, n) == [i \in 1..n |-> k + i]

\* The pages the provider holds for a paginated endpoint: page p carries a
\* 'next' pointer exactly when p is not the last one.  The items are numbered
\* in page order, so that every item of the result set is distinct; every
\* page is full (two items) but the last one.
PagesOf(sizes) ==
    [p \in 1..Len(sizes) |-> Range(Sum(SubSeq(sizes, 1, p - 1)), sizes[p])]
ResultSets ==
    {PagesOf([p \in 1..n |-> IF p = n THEN 1 ELSE 2]) : n \in 1..MaxPages}

(* ------------------------- audio-feature inputs ------------------------ *)

Min(a, b) == IF a < b THEN a ELSE b

\* the lengths of the track id lists handed to get_audio_features_for_tracks
IdCounts == {0, 1, BatchSize, BatchSize + 1, MaxIds}

\* the ids whose individual request may fail, and those without features
\* (the provider answers None for them)
FailingIds == {1, BatchSize + 1}
FeaturelessIds == {2}

\* the audio features of a track id: a record the provider keys by that id,
\* or None for an id it has no features for
NoFeature == 0
FeatureOf(id, nullIds) == IF id \in nullIds THEN NoFeature ELSE id

\* client.audio_features(batch) when it succeeds: one entry per id, in order
audio_features(batch, nullIds) == [k \in 1..Len(batch) |-> FeatureOf(batch[k], nullIds)]

\* [f for f in features if f is not None]
NotNone(f) == f # NoFeature
\* faulty variant: the None entries are kept
drop_none_keeping(features) == features

drop_none(features) == SelectSeq(features, NotNone)

\* faulty variant: the slice takes one id too many, track_ids[i:i + 21]
batch_at_overlapping(ids, i) == SubSeq(ids, i + 1, Min(i + BatchSize + 1, Len(ids)))

\* track_ids[i:i + 20]
batch_at(ids, i) == SubSeq(ids, i + 1, Min(i + BatchSize, Len(ids)))

\* faulty variant: the fallback goes through the whole argument
fallback_all_ids(ids, i) == ids

\* `for track_id in batch`: the ids the fallback of the batch at i goes through
fallback_ids(ids, i) == batch_at(ids, i)

(* --------------------------------- state ------------------------------- *)

VARIABLES
    now,            \* time.time(), in ticks
    tokenFile,      \* data/token.json
    nextTok,        \* provider: identity of the next token it issues
    tokenReqs,      \* token-endpoint requests issued so far
    access_token,   \* SpotifyAPIClient._access_token
    spotipy_client, \* SpotifyAPIClient._spotipy_client: the token it is bound to
    client_rec,     \* the token record the bound token was read from
    client_call,    \* the last _get_client: its gate consultations, whether it
                    \* built a transport, and the transport it found
    pc,             \* where the running public method is
    method,         \* the running (or last) public method
    ncalls,         \* public method calls started
    ret,            \* outcome of the last public method call
    attempt,        \* _retry_request: loop variable
    trace,          \* _retry_request: outcome of every attempt so far
    sleeps,         \* _retry_request: every sleep so far, in ticks
    pages,          \* result set held by the provider for this call
    page_idx,       \* _fetch: page the next request asks for
    tracks,         \* _fetch: items collected by the running attempt
    track_ids,      \* get_audio_features_for_tracks: its argument
    badIds,         \* provider: ids whose individual request fails
    nullIds,        \* provider: ids without audio features
    batch_i,        \* get_audio_features_for_tracks: loop variable i
    item_k,         \* _fetch_batch: position in the batch of the fallback loop
    individual_features, \* _fetch_batch: features collected by the fallback
    all_features,   \* get_audio_features_for_tracks: all_features
    batchReqs,      \* the batches requested by this call, in order
    itemReqs,       \* the ids requested one by one by this call, in order
    failedBatches,  \* the values of i whose batch request failed
    batch_exc,      \* _fetch_batch: the exception `e` of its except clause
    nreq,           \* data requests issued by this call
    reqStale,       \* is_token_expired of the bound token at the last request
    op,             \* auth.py: the running (or last) operation
    url,            \* the redirect URL handed to the operation
    argRec,         \* the token record handed to the operation
    out,            \* what the operation returns or raises
    pre,            \* the token file when the operation started
    opReqs,         \* token-endpoint requests issued by the operation
    pending,        \* save_tokens: the file as json.dump will leave it
    events,         \* authenticate: its steps so far, in order
    providerRT,     \* the refresh token the provider supplied last
    hadRecord,      \* the store has held a record and no save was interrupted since
    pipeline,       \* fetch_all_data: its position, its arguments and its result
    fetched,        \* fetch_all_data: how the fetch functions it called ended
    procs,          \* two processes in get_valid_token: position and locals of each
    lastWriter      \* the process whose json.dump came last

tokenVars == <<tokenFile, nextTok, tokenReqs>>
clientVars == <<access_token, spotipy_client, client_rec, client_call>>
retryVars == <<attempt, trace, sleeps>>
pageVars == <<pages, page_idx, tracks>>
inputVars == <<track_ids, badIds, nullIds>>
audioVars == <<batch_i, item_k, individual_features, all_features,
               batchReqs, itemReqs, failedBatches, batch_exc>>
pipeVars == <<pipeline, fetched>>
raceVars == <<procs, lastWriter>>
authOwn == <<op, url, argRec, out, pre, opReqs, pending, events, providerRT, hadRecord>>
authVars == <<authOwn, pipeVars, raceVars>>
vars == <<now, tokenVars, clientVars, pc, method, ncalls, ret, retryVars,
          pageVars, inputVars, audioVars, nreq, reqStale, authVars>>

NoRet == [status |-> "none", value |-> <<>>, exc |-> Ok]
Returned(v) == [status |-> "ok", value |-> v, exc |-> Ok]
Raised(e) == [status |-> "raise", value |-> <<>>, exc |-> e]

\* The token file when the process starts, at time 0: never written, damaged,
\* or written by the interactive flow some time ago.
InitialFiles ==
    {MissingFile, CorruptFile, EmptyFile}
    \cup {TokenRecord(1, rt, exp) : rt \in {NoRT, 1}, exp \in {Margin + 5, DefaultExpiresIn}}

\* fetch_all_data is not running
NoPipeline ==
    /\ pipeline = [pc |-> "idle", at |-> "begin", include_recently_played |-> FALSE,
                   time_ranges |-> 0, left |-> 0, ids |-> 0, ret |-> NoRet]
    /\ fetched = <<>>

\* a process that has not entered get_valid_token
NotStarted ==
    [pc |-> "start", loaded |-> MissingFile, sent |-> NoRT, issued |-> None,
     answer |-> RefreshFailure, fresh |-> MissingFile, overlap |-> FALSE,
     err |-> "", token |-> None]
\* no process runs get_valid_token beside this one
NoRace ==
    /\ procs = [p \in 1..2 |-> NotStarted]
    /\ lastWriter = 0

\* no operation of auth.py has run on its own
NoOut ==
    [err |-> "", msg |-> "", token |-> None, code |-> "", rec |-> MissingFile,
     found |-> FALSE, expired |-> FALSE]
NoAuth ==
    /\ op = "none"
    /\ url = <<>>
    /\ argRec = MissingFile
    /\ out = NoOut
    /\ pre = MissingFile
    /\ opReqs = 0
    /\ pending = MissingFile
    /\ events = <<>>

\* _get_client has not been called
NoCall == [calls |-> <<>>, built |-> FALSE, old |-> None]

\* no public method of the API client has been called
NoClient ==
    /\ access_token = None
    /\ spotipy_client = None
    /\ client_rec = MissingFile
    /\ client_call = NoCall
    /\ method = "none"
    /\ ncalls = 0
    /\ ret = NoRet
    /\ attempt = 0
    /\ trace = <<>>
    /\ sleeps = <<>>
    /\ pages = <<>>
    /\ page_idx = 1
    /\ tracks = <<>>
    /\ track_ids = <<>>
    /\ badIds = {}
    /\ nullIds = {}
    /\ batch_i = 0
    /\ item_k = 0
    /\ individual_features = <<>>
    /\ all_features = <<>>
    /\ batchReqs = <<>>
    /\ itemReqs = <<>>
    /\ failedBatches = {}
    /\ batch_exc = Ok
    /\ nreq = 0
    /\ reqStale = FALSE

Init ==
    /\ now = 0
    /\ tokenFile \in InitialFiles
    /\ NoAuth
    /\ NoPipeline
    /\ NoRace
    /\ providerRT = tokenFile.refresh_token
    /\ hadRecord = Loadable(tokenFile)
    /\ nextTok = 2
    /\ tokenReqs = 0
    /\ access_token = None
    /\ spotipy_client = None
    /\ client_rec = MissingFile
    /\ client_call = NoCall
    /\ pc = "idle"
    /\ method = "none"
    /\ ncalls = 0
    /\ ret = NoRet
    /\ attempt = 0
    /\ trace = <<>>
    /\ sleeps = <<>>
    /\ pages = <<>>
    /\ page_idx = 1
    /\ tracks = <<>>
    /\ track_ids = <<>>
    /\ badIds = {}
    /\ nullIds = {}
    /\ batch_i = 0
    /\ item_k = 0
    /\ individual_features = <<>>
    /\ all_features = <<>>
    /\ batchReqs = <<>>
    /\ itemReqs = <<>>
    /\ failedBatches = {}
    /\ batch_exc = Ok
    /\ nreq = 0
    /\ reqStale = FALSE

(* ------------------------------ _get_client ---------------------------- *)

\* what a consultation of the gate at time t gave: its error, the token it
\* returned, its token-endpoint requests, and whether the record it returned
\* from is outside the margin at t
Gate(g, t) ==
    [err |-> g.err, token |-> g.token, reqs |-> g.reqs,
     fresh |-> g.err = "" /\ ~is_token_expired(g.rec, t)]

\* faulty variant: a transport that exists is kept, with the token it has
get_client_keeping_transport(r1, r2) ==
    LET g1 == get_valid_token(tokenFile, now, r1, nextTok)
        first == spotipy_client # None
        file1 == IF first THEN g1.file ELSE tokenFile
        tok1 == IF first THEN nextTok + g1.reqs ELSE nextTok
        reqs1 == IF first THEN g1.reqs ELSE 0
        g2 == get_valid_token(file1, now, r2, tok1)
        calls1 == IF first THEN <<Gate(g1, now)>> ELSE <<>>
    IN
    IF first /\ g1.err # ""
    THEN [err |-> g1.err, file |-> g1.file, reqs |-> g1.reqs,
          access_token |-> access_token, client |-> spotipy_client, rec |-> client_rec,
          calls |-> calls1, built |-> FALSE]
    ELSE IF first /\ access_token = g1.token
    THEN [err |-> "", file |-> g1.file, reqs |-> g1.reqs,
          access_token |-> access_token, client |-> spotipy_client, rec |-> client_rec,
          calls |-> calls1, built |-> FALSE]
    ELSE IF g2.err # ""
    THEN [err |-> g2.err, file |-> g2.file, reqs |-> reqs1 + g2.reqs,
          access_token |-> access_token, client |-> spotipy_client, rec |-> client_rec,
          calls |-> Append(calls1, Gate(g2, now)), built |-> FALSE]
    ELSE [err |-> "", file |-> g2.file, reqs |-> reqs1 + g2.reqs,
          access_token |-> g2.token,
          client |-> IF first THEN spotipy_client ELSE g2.token,
          rec |-> IF first THEN client_rec ELSE g2.rec,
          calls |-> Append(calls1, Gate(g2, now)), built |-> TRUE]

\* _get_client: get_valid_token is consulted in the condition unless no
\* transport exists yet, and once more when the transport is (re)built.
\* r1 and r2 are the token endpoint's answers to the refresh request of the
\* first and of the second consultation, should they issue one.
get_client(r1, r2) ==
    LET g1 == get_valid_token(tokenFile, now, r1, nextTok)
        first == spotipy_client # None
        file1 == IF first THEN g1.file ELSE tokenFile
        tok1 == IF first THEN nextTok + g1.reqs ELSE nextTok
        reqs1 == IF first THEN g1.reqs ELSE 0
        g2 == get_valid_token(file1, now, r2, tok1)
        calls1 == IF first THEN <<Gate(g1, now)>> ELSE <<>>
    IN
    IF first /\ g1.err # ""
    THEN [err |-> g1.err, file |-> g1.file, reqs |-> g1.reqs,
          access_token |-> access_token, client |-> spotipy_client, rec |-> client_rec,
          calls |-> calls1, built |-> FALSE]
    ELSE IF first /\ access_token = g1.token
    THEN [err |-> "", file |-> g1.file, reqs |-> g1.reqs,
          access_token |-> access_token, client |-> spotipy_client, rec |-> client_rec,
          calls |-> calls1, built |-> FALSE]
    ELSE IF g2.err # ""
    THEN [err |-> g2.err, file |-> g2.file, reqs |-> reqs1 + g2.reqs,
          access_token |-> access_token, client |-> spotipy_client, rec |-> client_rec,
          calls |-> Append(calls1, Gate(g2, now)), built |-> FALSE]
    ELSE [err |-> "", file |-> g2.file, reqs |-> reqs1 + g2.reqs,
          access_token |-> g2.token, client |-> g2.token, rec |-> g2.rec,
          calls |-> Append(calls1, Gate(g2, now)), built |-> TRUE]

\* get_valid_token over this file asks the token endpoint for a refresh
Refreshes(file) ==
    /\ load_tokens(file).found
    /\ file.state # "empty"
    /\ is_token_expired(file, now)
    /\ file.refresh_token # NoRT

\* what the token endpoint may answer, when it is asked at all
Answers(asked) == IF asked THEN RefreshResponses ELSE {RefreshFailure}

\* First line of every public method: client = self._get_client().  The
\* method goes on to `next` with a bound transport, or raises the ValueError
\* of get_valid_token.  `empty` is a call that has no request to make.
Call(m, next, empty) ==
    /\ pc = "idle"
    /\ \E r1 \in Answers(spotipy_client # None /\ Refreshes(tokenFile)) :
       \E r2 \in Answers(IF spotipy_client = None THEN Refreshes(tokenFile)
                          ELSE Refreshes(get_valid_token(tokenFile, now, r1, nextTok).file)) :
         LET c == get_client(r1, r2) IN
         /\ tokenFile' = c.file
         /\ tokenReqs' = tokenReqs + c.reqs
         /\ nextTok' = nextTok + c.reqs
         /\ access_token' = c.access_token
         /\ spotipy_client' = c.client
         /\ client_rec' = c.rec
         /\ client_call' = [calls |-> c.calls, built |-> c.built, old |-> spotipy_client]
         /\ pc' = IF c.err = "" /\ ~empty THEN next ELSE "idle"
         /\ ret' = IF c.err # "" THEN Raised(TokenError)
                   ELSE IF empty THEN Returned(<<>>) ELSE NoRet
    /\ method' = m
    /\ ncalls' = ncalls + 1
    /\ attempt' = 0
    /\ trace' = <<>>
    /\ sleeps' = <<>>
    /\ page_idx' = 1
    /\ tracks' = <<>>
    /\ batch_i' = 0
    /\ item_k' = 0
    /\ individual_features' = <<>>
    /\ all_features' = <<>>
    /\ batchReqs' = <<>>
    /\ itemReqs' = <<>>
    /\ failedBatches' = {}
    /\ batch_exc' = Ok
    /\ nreq' = 0
    /\ reqStale' = FALSE
    /\ UNCHANGED <<now, authOwn, raceVars>>

\* a public method called on the client on its own, within the bounds of
\* the run
Enter(m, next, empty) ==
    /\ ncalls < MaxCalls
    /\ now <= MaxNow
    /\ tokenReqs + 2 <= MaxTokenReqs
    /\ Call(m, next, empty)
    /\ UNCHANGED pipeVars

(* ----------------------------- _retry_request -------------------------- *)

\* a data request goes out over the bound transport at time t
Issue(t) ==
    /\ nreq' = nreq + 1
    /\ reqStale' = is_token_expired(client_rec, t)

\* the wrapped call returned v: _retry_request returns it
Succeed(v) ==
    /\ trace' = Append(trace, Ok)
    /\ ret' = Returned(v)
    /\ pc' = "idle"
    /\ UNCHANGED <<now, attempt, sleeps, page_idx, tracks>>

\* faulty variant: a new attempt goes on with the items collected so far
tracks_at_start_keeping(collected) == collected

\* a new invocation of _fetch has its own list `tracks`, whatever the
\* invocation before it had collected
tracks_at_start(collected) == <<>>

\* the wrapped call raised o: the except clauses, the sleep and the next
\* iteration of `for attempt in range(max_retries)`, which starts the
\* wrapped call afresh; the loop running out raises the generic exception
Fail(o) ==
    LET d == on_failure(o, attempt) IN
    /\ trace' = Append(trace, o)
    /\ page_idx' = 1
    /\ tracks' = tracks_at_start(tracks)
    /\ IF d.act = "raise"
       THEN /\ ret' = Raised(o)
            /\ pc' = "idle"
            /\ UNCHANGED <<now, attempt, sleeps>>
       ELSE /\ now' = now + d.wait
            /\ sleeps' = Append(sleeps, d.wait)
            /\ attempt' = attempt + 1
            /\ IF attempt + 1 < MaxRetries
               THEN UNCHANGED <<ret, pc>>
               ELSE /\ ret' = Raised(MaxRetriesExceeded)
                    /\ pc' = "idle"

(* ---------------------------- public methods --------------------------- *)

\* a method that takes no list of track ids
NoIds ==
    /\ track_ids' = <<>>
    /\ badIds' = {}
    /\ nullIds' = {}

\* get_top_tracks up to the first request
get_top_tracks ==
    /\ Enter("top_tracks", "fetch", FALSE)
    /\ pages' \in ResultSets
    /\ NoIds

\* get_top_artists up to the first request
get_top_artists ==
    /\ Enter("top_artists", "fetch", FALSE)
    /\ pages' \in ResultSets
    /\ NoIds

\* faulty variant: the 'next' pointer is never followed
has_next_never(ps, p) == FALSE

\* results.get("next") of page p: the pointer to the page after it
has_next(ps, p) == p < Len(ps)

\* _fetch of get_top_tracks / get_top_artists: one page request.  The first
\* one is current_user_top_*(), the following ones client.next(results);
\* the loop goes on while the page received has a 'next' pointer.
FetchPage ==
    /\ pc = "fetch"
    /\ method \in {"top_tracks", "top_artists"}
    /\ Issue(now)
    /\ \E o \in Outcomes :
         IF o.kind = "ok"
         THEN IF has_next(pages, page_idx)
              THEN /\ tracks' = tracks \o pages[page_idx]
                   /\ page_idx' = page_idx + 1
                   /\ UNCHANGED <<now, attempt, trace, sleeps, ret, pc>>
              ELSE Succeed(tracks \o pages[page_idx])
         ELSE Fail(o)
    /\ UNCHANGED <<tokenVars, clientVars, method, ncalls, pages, inputVars, audioVars,
                   authVars>>

\* get_recently_played up to the request
get_recently_played ==
    /\ Enter("recently_played", "fetch", FALSE)
    /\ pages' \in ResultSets
    /\ NoIds

\* _fetch of get_recently_played: one request, the items of that page
FetchRecent ==
    /\ pc = "fetch"
    /\ method = "recently_played"
    /\ Issue(now)
    /\ \E o \in Outcomes :
         IF o.kind = "ok" THEN Succeed(pages[1]) ELSE Fail(o)
    /\ UNCHANGED <<tokenVars, clientVars, method, ncalls, pages, inputVars, audioVars,
                   authVars>>

\* get_track_info up to the request
get_track_info ==
    /\ Enter("track_info", "fetch", FALSE)
    /\ pages' = PagesOf(<<1>>)
    /\ NoIds

\* _fetch of get_track_info: client.track(track_id)
FetchTrack ==
    /\ pc = "fetch"
    /\ method = "track_info"
    /\ Issue(now)
    /\ \E o \in Outcomes :
         IF o.kind = "ok" THEN Succeed(pages[1]) ELSE Fail(o)
    /\ UNCHANGED <<tokenVars, clientVars, method, ncalls, pages, inputVars, audioVars,
                   authVars>>

\* get_audio_features_for_tracks up to the first batch request; the list of
\* ids is 1..n, and an empty list makes the method return [] at once
get_audio_features_for_tracks ==
    \E n \in IdCounts :
      /\ Enter("audio_features", "batch", n = 0)
      /\ track_ids' = Range(0, n)
      /\ badIds' \in SUBSET (FailingIds \cap 1..n)
      /\ nullIds' \in SUBSET (FeaturelessIds \cap 1..n)
      /\ pages' = <<>>

\* The rest of one iteration of `for i in range(0, len(track_ids), 20)` once
\* _retry_request has returned `features` at time t: all_features is
\* extended, and the loop sleeps and goes on, or the method returns.
EndBatch(features, t) ==
    LET all == all_features \o drop_none(features) IN
    /\ all_features' = all
    /\ trace' = <<Ok>>
    /\ item_k' = 0
    /\ individual_features' = <<>>
    /\ batch_exc' = Ok
    /\ IF batch_i + BatchSize < Len(track_ids)
       THEN /\ now' = t + BatchDelay
            /\ batch_i' = batch_i + BatchSize
            /\ pc' = "batch"
            /\ UNCHANGED ret
       ELSE /\ now' = t
            /\ ret' = Returned(all)
            /\ pc' = "idle"
            /\ UNCHANGED batch_i

\* faulty variant: the except clause lets rate limits and server errors through
fetch_batch_catches_client_errors(o) == ~(o.kind = "spotify" /\ (o.status = 429 \/ o.status >= 500))

\* `except Exception` of _fetch_batch: every failure of the batch request is
\* caught there, none reaches _retry_request
fetch_batch_catches(o) == TRUE

\* _fetch_batch up to its except clause: client.audio_features(batch).  Any
\* exception caught starts the fallback over the ids of the batch.
FetchBatch ==
    /\ pc = "batch"
    /\ Issue(now)
    /\ batchReqs' = Append(batchReqs, batch_at(track_ids, batch_i))
    /\ \E o \in Outcomes :
         IF o.kind = "ok"
         THEN /\ EndBatch(audio_features(batch_at(track_ids, batch_i), nullIds), now)
              /\ UNCHANGED <<itemReqs, failedBatches, attempt, sleeps, page_idx, tracks>>
         ELSE IF fetch_batch_catches(o)
         THEN /\ failedBatches' = failedBatches \cup {batch_i}
              /\ batch_exc' = o
              /\ item_k' = 1
              /\ individual_features' = <<>>
              /\ trace' = <<>>
              /\ pc' = "items"
              /\ UNCHANGED <<now, ret, batch_i, all_features, itemReqs, attempt, sleeps,
                             page_idx, tracks>>
         ELSE /\ Fail(o)
              /\ batch_exc' = o
              /\ UNCHANGED <<batch_i, item_k, individual_features, all_features,
                             itemReqs, failedBatches>>
    /\ UNCHANGED <<tokenVars, clientVars, method, ncalls, pages, inputVars, authVars>>

\* One iteration of the fallback loop of _fetch_batch: time.sleep(0.1), then
\* client.audio_features([track_id]); a failure is passed over, an answer
\* that is empty or [None] adds nothing.  After the last id _fetch_batch
\* returns individual_features.
FetchItem ==
    LET batch == fallback_ids(track_ids, batch_i)
        id == batch[item_k]
        t == now + ItemDelay
        feat == audio_features(<<id>>, nullIds)
        found == IF id \notin badIds /\ feat[1] # NoFeature
                 THEN Append(individual_features, feat[1])
                 ELSE individual_features
    IN
    /\ pc = "items"
    /\ Issue(t)
    /\ itemReqs' = Append(itemReqs, id)
    /\ IF item_k < Len(batch)
       THEN /\ item_k' = item_k + 1
            /\ individual_features' = found
            /\ now' = t
            /\ UNCHANGED <<pc, ret, batch_i, all_features, trace, batch_exc>>
       ELSE EndBatch(found, t)
    /\ UNCHANGED <<tokenVars, clientVars, method, ncalls, attempt, sleeps, pageVars,
                   inputVars, batchReqs, failedBatches, authVars>>

\* time passes between two public method calls, one second at a time
IdleStep == Delay
Idle ==
    /\ pc = "idle"
    /\ now < MaxNow
    /\ now' = now + IdleStep
    /\ UNCHANGED <<tokenVars, clientVars, pc, method, ncalls, ret, retryVars,
                   pageVars, inputVars, audioVars, nreq, reqStale, authVars>>

Next ==
    \/ get_top_tracks
    \/ get_top_artists
    \/ get_recently_played
    \/ get_track_info
    \/ get_audio_features_for_tracks
    \/ FetchPage
    \/ FetchRecent
    \/ FetchTrack
    \/ FetchBatch
    \/ FetchItem
    \/ Idle

Spec == Init /\ [][Next]_vars

\* The methods whose requests go through _retry_request unguarded, under the
\* assumption that a request that was sent is answered: the wrapped call
\* terminates.
NextRetry ==
    \/ get_top_tracks
    \/ get_top_artists
    \/ get_recently_played
    \/ get_track_info
    \/ FetchPage
    \/ FetchRecent
    \/ FetchTrack
    \/ Idle

SpecRetry ==
    /\ Init
    /\ [][NextRetry]_vars
    /\ WF_vars(FetchPage)
    /\ WF_vars(FetchRecent)
    /\ WF_vars(FetchTrack)

(* ------------------------- auth.py on its own -------------------------- *)

\* The token files the operations of auth.py may find.
AuthFiles == InitialFiles \cup {UndecodableFile}

\* The pairs of a redirect URL's query string, and the URLs pasted at the
\* prompt: up to MaxParams pairs, values possibly blank, keys possibly repeated.
Params ==
    {Param("code", v) : v \in {"", "abc", "xyz"}} \cup
    {Param("error", v) : v \in {"", "access_denied"}} \cup
    {Param("state", "s1")}
Urls == UNION {[1..n -> Params] : n \in 0..MaxParams}

InitAuth ==
    /\ now = 0
    /\ tokenFile \in AuthFiles
    /\ nextTok = 2
    /\ tokenReqs = 0
    /\ pc = "idle"
    /\ NoAuth
    /\ NoPipeline
    /\ NoRace
    /\ providerRT = tokenFile.refresh_token
    /\ hadRecord = Loadable(tokenFile)
    /\ NoClient

\* Every operation of auth.py leaves the API client alone.
AuthFrame ==
    UNCHANGED <<clientVars, method, ncalls, ret, retryVars, pageVars, inputVars,
                audioVars, nreq, reqStale, pipeVars, raceVars>>

\* is_token_expired(token_data) on a record whose expires_at is around the
\* margin, far ahead, or missing (0 is then taken)
CheckExpired ==
    /\ pc = "idle"
    /\ \E exp \in {0, DefaultExpiresIn} \cup
                  {now + Margin + d * TicksPerSecond : d \in {-1, 0, 1}} :
         /\ argRec' = TokenRecord(1, 1, exp)
         /\ out' = [NoOut EXCEPT !.expired = is_token_expired(TokenRecord(1, 1, exp), now)]
    /\ op' = "is_token_expired"
    /\ pre' = tokenFile
    /\ opReqs' = 0
    /\ url' = <<>>
    /\ events' = <<>>
    /\ pc' = "done"
    /\ UNCHANGED <<now, tokenVars, pending, providerRT, hadRecord>>
    /\ AuthFrame

\* load_tokens()
LoadTokens ==
    /\ pc = "idle"
    /\ LET l == load_tokens(tokenFile) IN
         /\ tokenFile' = l.file
         /\ out' = [NoOut EXCEPT !.err = IF l.raised THEN "UnicodeDecodeError" ELSE "",
                                 !.found = l.found, !.rec = l.rec]
    /\ op' = "load_tokens"
    /\ pre' = tokenFile
    /\ opReqs' = 0
    /\ url' = <<>>
    /\ argRec' = MissingFile
    /\ events' = <<>>
    /\ pc' = "done"
    /\ UNCHANGED <<now, nextTok, tokenReqs, pending, providerRT, hadRecord>>
    /\ AuthFrame

\* extract_code_from_url(redirect_url)
ExtractCode ==
    /\ pc = "idle"
    /\ \E u \in Urls :
         LET x == extract_code_from_url(u) IN
         /\ url' = u
         /\ out' = [NoOut EXCEPT !.err = x.err, !.msg = x.msg, !.code = x.code]
    /\ op' = "extract_code_from_url"
    /\ pre' = tokenFile
    /\ opReqs' = 0
    /\ argRec' = MissingFile
    /\ events' = <<>>
    /\ pc' = "done"
    /\ UNCHANGED <<now, tokenVars, pending, providerRT, hadRecord>>
    /\ AuthFrame

\* An operation that ends with save_tokens has opened the file for writing
\* when the file it leaves differs from the one it found; json.dump follows.
Write(file) ==
    IF file = tokenFile
    THEN /\ pc' = "done"
         /\ UNCHANGED <<tokenFile, pending>>
    ELSE /\ tokenFile' = open_for_writing(tokenFile)
         /\ pending' = file
         /\ pc' = "saving"

\* get_valid_token(), up to the open() of save_tokens if it saves
GetValidToken ==
    /\ pc = "idle"
    /\ tokenReqs < MaxTokenReqs
    /\ \E resp \in Answers(Refreshes(tokenFile)) :
         LET g == get_valid_token(tokenFile, now, resp, nextTok) IN
         /\ out' = [NoOut EXCEPT !.err = g.err, !.token = g.token, !.rec = g.rec]
         /\ opReqs' = g.reqs
         /\ tokenReqs' = tokenReqs + g.reqs
         /\ nextTok' = nextTok + g.reqs
         /\ providerRT' = IF g.reqs > 0 /\ resp.ok /\ resp.rotate THEN nextTok
                          ELSE providerRT
         /\ Write(g.file)
    /\ op' = "get_valid_token"
    /\ pre' = tokenFile
    /\ url' = <<>>
    /\ argRec' = MissingFile
    /\ events' = <<>>
    /\ UNCHANGED <<now, hadRecord>>
    /\ AuthFrame

\* authenticate(interactive), up to the open() of save_tokens if it saves
Authenticate ==
    /\ pc = "idle"
    /\ tokenReqs < MaxTokenReqs
    /\ \E interactive \in BOOLEAN, u \in Urls :
       \E resp \in (IF extract_code_from_url(u).err = "" THEN ExchangeResponses
                    ELSE {RefreshFailure}) :
         LET a == authenticate(tokenFile, now, interactive, u, resp, nextTok) IN
         /\ url' = u
         /\ out' = [NoOut EXCEPT !.err = a.err, !.msg = a.msg, !.rec = a.rec]
         /\ opReqs' = a.reqs
         /\ events' = a.events
         /\ tokenReqs' = tokenReqs + a.reqs
         /\ nextTok' = nextTok + a.reqs
         /\ providerRT' = IF a.err = "" THEN a.rec.refresh_token ELSE providerRT
         /\ Write(a.file)
    /\ op' = "authenticate"
    /\ pre' = tokenFile
    /\ argRec' = MissingFile
    /\ UNCHANGED <<now, hadRecord>>
    /\ AuthFrame

\* python authenticate.py, up to the open() of save_tokens if it saves
Bootstrap ==
    /\ pc = "idle"
    /\ tokenReqs < MaxTokenReqs
    /\ \E u \in Urls :
       \E resp \in (IF extract_code_from_url(u).err = "" /\ ~Loadable(tokenFile)
                        /\ ~load_tokens(tokenFile).raised
                    THEN ExchangeResponses ELSE {RefreshFailure}) :
         LET a == bootstrap(tokenFile, now, u, resp, nextTok) IN
         /\ url' = IF "prompt" \in {a.events[i] : i \in 1..Len(a.events)} THEN u ELSE <<>>
         /\ out' = [NoOut EXCEPT !.err = a.err, !.msg = a.msg, !.rec = a.rec]
         /\ opReqs' = a.reqs
         /\ events' = a.events
         /\ tokenReqs' = tokenReqs + a.reqs
         /\ nextTok' = nextTok + a.reqs
         /\ providerRT' = IF a.err = "" /\ a.reqs > 0 THEN a.rec.refresh_token
                          ELSE providerRT
         /\ Write(a.file)
    /\ op' = "authenticate.py"
    /\ pre' = tokenFile
    /\ argRec' = MissingFile
    /\ UNCHANGED <<now, hadRecord>>
    /\ AuthFrame

\* A fetch function of fetch_data.py: client = SpotifyAPIClient(), then a
\* public method, whose first line is _get_client().  The token store is
\* touched there and nowhere else in the API client; the client object is
\* gone when the fetch function ends.
NewClientCall ==
    /\ pc = "idle"
    /\ spotipy_client = None
    /\ tokenReqs < MaxTokenReqs
    /\ \E resp \in Answers(Refreshes(tokenFile)) :
         LET c == get_client(RefreshFailure, resp) IN
         /\ out' = [NoOut EXCEPT !.err = c.err,
                                 !.token = IF c.err = "" THEN c.access_token ELSE None,
                                 !.rec = IF c.err = "" THEN c.rec ELSE MissingFile]
         /\ opReqs' = c.reqs
         /\ tokenReqs' = tokenReqs + c.reqs
         /\ nextTok' = nextTok + c.reqs
         /\ providerRT' = IF c.reqs > 0 /\ resp.ok /\ resp.rotate THEN nextTok
                          ELSE providerRT
         /\ Write(c.file)
    /\ op' = "_get_client"
    /\ pre' = tokenFile
    /\ url' = <<>>
    /\ argRec' = MissingFile
    /\ events' = <<>>
    /\ UNCHANGED <<now, hadRecord>>
    /\ AuthFrame

\* save_tokens: json.dump writes the record and the file is closed
SaveDump ==
    /\ pc = "saving"
    /\ tokenFile' = pending
    /\ pc' = "done"
    /\ hadRecord' = (hadRecord \/ Loadable(pending))
    /\ UNCHANGED <<now, nextTok, tokenReqs, op, url, argRec, out, pre, opReqs, pending,
                   events, providerRT>>
    /\ AuthFrame

\* The process is stopped between the open() and the json.dump of save_tokens.
Interrupt ==
    /\ pc = "saving"
    /\ pc' = "done"
    /\ op' = "interrupted"
    /\ out' = NoOut
    /\ hadRecord' = FALSE
    /\ UNCHANGED <<now, tokenVars, url, argRec, pre, opReqs, pending, events, providerRT>>
    /\ AuthFrame

\* The operation has returned or raised: its arguments and locals are gone.
Return ==
    /\ pc = "done"
    /\ pc' = "idle"
    /\ op' = "none"
    /\ url' = <<>>
    /\ argRec' = MissingFile
    /\ out' = NoOut
    /\ pre' = MissingFile
    /\ opReqs' = 0
    /\ pending' = MissingFile
    /\ events' = <<>>
    /\ UNCHANGED <<now, tokenVars, providerRT, hadRecord>>
    /\ AuthFrame

\* Time passes between two operations.
Tick ==
    /\ pc = "idle"
    /\ now + IdleStep <= MaxNow
    /\ now' = now + IdleStep
    /\ UNCHANGED <<tokenVars, pc, authVars>>
    /\ AuthFrame

NextAuth ==
    \/ CheckExpired
    \/ LoadTokens
    \/ ExtractCode
    \/ GetValidToken
    \/ Authenticate
    \/ Bootstrap
    \/ NewClientCall
    \/ SaveDump
    \/ Interrupt
    \/ Return
    \/ Tick

SpecAuth == InitAuth /\ [][NextAuth]_vars

(* ----------------------------- fetch_all_data -------------------------- *)

\* The fetch functions fetch_all_data calls, in the order of its calls.
Stages ==
    <<"fetch_top_tracks", "fetch_audio_features", "fetch_top_artists",
      "fetch_recently_played">>

\* the fetch functions that loop over the time ranges
Ranged == {"fetch_top_tracks", "fetch_top_artists"}

\* The lengths of the list time_ranges: an empty list, one range, and the
\* three ranges None stands for.
TimeRangeCounts == {0, 1, 3}

Max(a, b) == IF a > b THEN a ELSE b

\* fetch_all_data after the fetch function number k has ended with r, p
\* being its state: only the call of fetch_audio_features is inside
\* try / except Exception, where audio_features becomes [];
\* fetch_recently_played is called when asked for
after_stage(k, p, r) ==
    IF r.status = "raise" /\ Stages[k] # "fetch_audio_features"
    THEN [p EXCEPT !.pc = "done", !.ret = Raised(r.exc)]
    ELSE IF k = 4 \/ (k = 3 /\ ~p.include_recently_played)
    THEN [p EXCEPT !.pc = "done", !.ret = Returned(<<>>)]
    ELSE [p EXCEPT !.pc = Stages[k + 1], !.at = "begin"]

\* What the steps of fetch_all_data and of the fetch functions outside the
\* client leave alone: the clock, the token store and the running method.
FetchFrame ==
    UNCHANGED <<now, tokenVars, pc, method, ncalls, ret, retryVars, pageVars,
                inputVars, audioVars, nreq, reqStale, authOwn, raceVars>>

\* The method of the client has ended and the fetch function has taken what
\* it returned or raised: the locals of the call are gone.
MethodGone ==
    /\ method' = "none"
    /\ ret' = NoRet
    /\ attempt' = 0
    /\ trace' = <<>>
    /\ sleeps' = <<>>
    /\ pages' = <<>>
    /\ page_idx' = 1
    /\ tracks' = <<>>
    /\ track_ids' = <<>>
    /\ badIds' = {}
    /\ nullIds' = {}
    /\ batch_i' = 0
    /\ item_k' = 0
    /\ individual_features' = <<>>
    /\ all_features' = <<>>
    /\ batchReqs' = <<>>
    /\ itemReqs' = <<>>
    /\ failedBatches' = {}
    /\ batch_exc' = Ok
    /\ nreq' = 0
    /\ reqStale' = FALSE
    /\ UNCHANGED <<now, tokenVars, clientVars, pc, ncalls, authOwn, raceVars>>

\* fetch_all_data(time_ranges, include_recently_played) up to its first
\* fetch function
fetch_all_data ==
    /\ pipeline.pc = "idle"
    /\ pc = "idle"
    /\ \E b \in BOOLEAN, n \in TimeRangeCounts :
         pipeline' = [pc |-> Stages[1], at |-> "begin", include_recently_played |-> b,
                      time_ranges |-> n, left |-> 0, ids |-> 0, ret |-> NoRet]
    /\ fetched' = <<>>
    /\ UNCHANGED clientVars
    /\ FetchFrame

\* A fetch function up to its first call of the client:
\* client = SpotifyAPIClient(), a client without token and transport;
\* fetch_audio_features returns [] before that when it has no track id.
StageBegin ==
    /\ pipeline.pc \notin {"idle", "done"}
    /\ pipeline.at = "begin"
    /\ IF pipeline.pc = "fetch_audio_features" /\ pipeline.ids = 0
       THEN /\ fetched' = Append(fetched, Returned(<<>>))
            /\ pipeline' = after_stage(Len(fetched) + 1, pipeline, Returned(<<>>))
            /\ UNCHANGED clientVars
       ELSE /\ access_token' = None
            /\ spotipy_client' = None
            /\ client_rec' = MissingFile
            /\ client_call' = NoCall
            /\ pipeline' = [pipeline EXCEPT
                              !.at = "loop",
                              !.left = IF pipeline.pc \in Ranged
                                       THEN pipeline.time_ranges ELSE 1]
            /\ UNCHANGED fetched
    /\ FetchFrame

\* The fetch function calls the method of its client: get_top_tracks or
\* get_top_artists for the next time range, get_audio_features_for_tracks
\* with the ids of all the top tracks, or get_recently_played.  The method
\* runs as it does on its own, to its return or its exception.
StageCall ==
    /\ pipeline.pc \notin {"idle", "done"}
    /\ pipeline.at = "loop"
    /\ pipeline.left > 0
    /\ now <= MaxNow
    /\ \/ /\ pipeline.pc = "fetch_top_tracks"
          /\ Call("top_tracks", "fetch", FALSE)
          /\ pages' \in ResultSets
          /\ NoIds
       \/ /\ pipeline.pc = "fetch_top_artists"
          /\ Call("top_artists", "fetch", FALSE)
          /\ pages' \in ResultSets
          /\ NoIds
       \/ /\ pipeline.pc = "fetch_recently_played"
          /\ Call("recently_played", "fetch", FALSE)
          /\ pages' \in ResultSets
          /\ NoIds
       \/ /\ pipeline.pc = "fetch_audio_features"
          /\ Call("audio_features", "batch", FALSE)
          /\ track_ids' = Range(0, pipeline.ids)
          /\ badIds' \in SUBSET (FailingIds \cap 1..pipeline.ids)
          /\ nullIds' \in SUBSET (FeaturelessIds \cap 1..pipeline.ids)
          /\ pages' = <<>>
    /\ tokenReqs' <= MaxTokenReqs
    /\ pipeline' = [pipeline EXCEPT !.at = "wait"]
    /\ UNCHANGED fetched

\* The method returned: the fetch function writes the JSON and the CSV file,
\* which may fail, and goes on with its loop.  fetch_all_data collects the
\* ids of the top tracks in a set.
StageSave ==
    /\ pipeline.pc \notin {"idle", "done"}
    /\ pipeline.at = "wait"
    /\ pc = "idle"
    /\ ret.status = "ok"
    /\ \/ /\ pipeline' = [pipeline EXCEPT
                            !.at = "loop",
                            !.left = pipeline.left - 1,
                            !.ids = IF pipeline.pc = "fetch_top_tracks"
                                    THEN Max(pipeline.ids, Len(ret.value))
                                    ELSE pipeline.ids]
          /\ UNCHANGED fetched
       \/ /\ fetched' = Append(fetched, Raised(OtherException))
          /\ pipeline' = after_stage(Len(fetched) + 1, pipeline, Raised(OtherException))
    /\ MethodGone

\* The fetch function ends: its loop is over and it returns, or the exception
\* of the method of the client leaves it.
FetchStage ==
    /\ pipeline.pc \notin {"idle", "done"}
    /\ pc = "idle"
    /\ LET k == Len(fetched) + 1
           r == IF pipeline.at = "wait" THEN Raised(ret.exc) ELSE Returned(<<>>)
       IN
       /\ \/ pipeline.at = "loop" /\ pipeline.left = 0
          \/ pipeline.at = "wait" /\ ret.status = "raise"
       /\ fetched' = Append(fetched, r)
       /\ pipeline' = after_stage(k, pipeline, r)
    /\ MethodGone

\* The method called runs: its requests, its waits and its retries, as far
\* as the clock is followed.
StageStep ==
    /\ \/ FetchPage
       \/ FetchRecent
       \/ FetchBatch
       \/ FetchItem
    /\ now' <= MaxNow

NextFetch ==
    \/ fetch_all_data
    \/ StageBegin
    \/ StageCall
    \/ StageStep
    \/ StageSave
    \/ FetchStage

SpecFetch == Init /\ [][NextFetch]_vars

(* ------------------- two processes in get_valid_token ------------------- *)

\* The processes that run get_valid_token over the same token file.
Procs == {1, 2}

\* Nothing but the processes, the token file and the provider moves.
RaceFrame ==
    UNCHANGED <<clientVars, pc, method, ncalls, ret, retryVars, pageVars, inputVars,
                audioVars, nreq, reqStale, op, url, argRec, out, pre, opReqs, pending,
                events, hadRecord, pipeVars>>

\* token_data = load_tokens(); if not token_data: raise ValueError
RaceLoad(p) ==
    /\ procs[p].pc = "start"
    /\ LET l == load_tokens(tokenFile) IN
       procs' = [procs EXCEPT ![p] =
                   IF l.raised
                   THEN [@ EXCEPT !.pc = "failed", !.err = "UnicodeDecodeError"]
                   ELSE IF ~l.found \/ l.rec.state = "empty"
                   THEN [@ EXCEPT !.pc = "failed", !.err = "NoToken"]
                   ELSE [@ EXCEPT !.pc = "loaded", !.loaded = l.rec]]
    /\ UNCHANGED <<now, tokenVars, providerRT, lastWriter>>
    /\ RaceFrame

\* is_token_expired(token_data), and refresh_access_token up to
\* requests.post when it is: the refresh token of the record loaded goes to
\* the token endpoint, which issues its next token (and replaces the refresh
\* token when it rotates); the process waits for the answer
RaceRefresh(p) ==
    /\ procs[p].pc = "loaded"
    /\ LET rec == procs[p].loaded IN
       IF ~is_token_expired(rec, now)
       THEN /\ procs' = [procs EXCEPT ![p] =
                           [@ EXCEPT !.pc = "returned", !.token = rec.access_token]]
            /\ UNCHANGED <<nextTok, tokenReqs, providerRT>>
       ELSE IF rec.refresh_token = NoRT
       THEN /\ procs' = [procs EXCEPT ![p] =
                           [@ EXCEPT !.pc = "failed", !.err = "NoRefreshToken"]]
            /\ UNCHANGED <<nextTok, tokenReqs, providerRT>>
       ELSE /\ tokenReqs < MaxTokenReqs
            /\ \E resp \in RefreshResponses :
                 /\ procs' = [procs EXCEPT ![p] =
                                [@ EXCEPT !.pc = "posted", !.sent = rec.refresh_token,
                                          !.issued = nextTok, !.answer = resp]]
                 /\ providerRT' = IF resp.ok /\ resp.rotate THEN nextTok ELSE providerRT
            /\ tokenReqs' = tokenReqs + 1
            /\ nextTok' = nextTok + 1
    /\ UNCHANGED <<now, tokenFile, lastWriter>>
    /\ RaceFrame

\* refresh_access_token from the return of requests.post on: raise_for_status,
\* and the record built from the answer, with expires_at = time.time() +
\* expires_in read when the answer is there
RaceAnswer(p) ==
    /\ procs[p].pc = "posted"
    /\ LET r == refresh_access_token(procs[p].sent, now, procs[p].answer,
                                     procs[p].issued) IN
       procs' = [procs EXCEPT ![p] =
                   IF r.raised
                   THEN [@ EXCEPT !.pc = "failed", !.err = "RefreshFailed"]
                   ELSE [@ EXCEPT !.pc = "refreshed", !.fresh = r.rec]]
    /\ UNCHANGED <<now, tokenVars, providerRT, lastWriter>>
    /\ RaceFrame

\* save_tokens(token_data): open(filepath, "w")
RaceOpen(p) ==
    /\ procs[p].pc = "refreshed"
    /\ tokenFile' = open_for_writing(tokenFile)
    /\ procs' = [procs EXCEPT ![p] = [@ EXCEPT !.pc = "writing", !.overlap = FALSE]]
    /\ UNCHANGED <<now, nextTok, tokenReqs, providerRT, lastWriter>>
    /\ RaceFrame

\* save_tokens(token_data): json.dump and close, then return the access
\* token.  The text goes to the start of the file: when another process
\* has written since this one opened the file, what is left is this text, or
\* this text followed by the end of a longer one, which is not JSON.
RaceDump(p) ==
    /\ procs[p].pc = "writing"
    /\ tokenFile' \in {save_tokens(procs[p].fresh)} \cup
                      (IF procs[p].overlap THEN {CorruptFile} ELSE {})
    /\ procs' = [q \in Procs |->
                   IF q = p
                   THEN [procs[q] EXCEPT !.pc = "returned",
                                         !.token = procs[q].fresh.access_token]
                   ELSE IF procs[q].pc = "writing"
                   THEN [procs[q] EXCEPT !.overlap = TRUE]
                   ELSE procs[q]]
    /\ lastWriter' = p
    /\ UNCHANGED <<now, nextTok, tokenReqs, providerRT>>
    /\ RaceFrame

\* Time passes while the processes run.
RaceTick ==
    /\ now + IdleStep <= MaxRaceNow
    /\ now' = now + IdleStep
    /\ UNCHANGED <<tokenVars, providerRT, raceVars>>
    /\ RaceFrame

NextRace ==
    \/ \E p \in Procs : RaceLoad(p)
    \/ \E p \in Procs : RaceRefresh(p)
    \/ \E p \in Procs : RaceAnswer(p)
    \/ \E p \in Procs : RaceOpen(p)
    \/ \E p \in Procs : RaceDump(p)
    \/ RaceTick

SpecRace == InitAuth /\ [][NextRace]_vars

(* ------------------------------- properties ---------------------------- *)

RetryMethods == {"top_tracks", "top_artists", "recently_played", "track_info"}
PagedMethods == {"top_tracks", "top_artists"}

\* the last public method call has returned / has raised
Done == pc = "idle" /\ ret.status = "ok"
Failed == pc = "idle" /\ ret.status = "raise"

Is429(o) == o.kind = "spotify" /\ o.status = 429
Is5xx(o) == o.kind = "spotify" /\ o.status >= 500
Is4xx(o) == o.kind = "spotify" /\ o.status # 429 /\ o.status < 500

\* what the wrapped call of the running method returns when it succeeds
Payload == IF method \in PagedMethods THEN Concat(pages) ELSE pages[1]

\* the Retry-After hint of a 429 in seconds, one second when it is absent
HintSeconds(o) == IF o.hint = NoHint THEN 1 ELSE o.hint

\* C1: every data request a public method issues (the first one, the ones
\* re-issued after a rate-limit wait or a backoff sleep, continuation pages,
\* later batches, per-item requests) carries a token whose record is not
\* expired (is_token_expired false) at the moment the request is issued.
C1_RequestTokenNotExpired == nreq > 0 => ~reqStale

\* C2: when the wrapped call answers 429 on k < 3 consecutive attempts and
\* then succeeds, _retry_request returns the payload of the successful
\* attempt and has slept, in total, the sum of the k Retry-After hints
\* (one second for a missing hint), one sleep per 429.
C2_RateLimitWaits ==
    (/\ Done
     /\ method \in RetryMethods
     /\ \A j \in 1..(Len(trace) - 1) : Is429(trace[j]))
    => /\ Len(trace) <= MaxRetries
       /\ ret.value = Payload
       /\ Len(sleeps) = Len(trace) - 1
       /\ Sum(sleeps) =
            Sum([j \in 1..(Len(trace) - 1) |-> HintSeconds(trace[j]) * TicksPerSecond])

\* C2 witness: [429, 429, 200], the second 429 with a hint of 2 seconds
C2_Witness ==
    /\ Done
    /\ method = "track_info"
    /\ Len(trace) = 3
    /\ Is429(trace[1]) /\ trace[1].hint = NoHint
    /\ Is429(trace[2]) /\ trace[2].hint = 2
    /\ Sum(sleeps) = 30

\* C3: _retry_request invokes the wrapped call at most 3 times, whatever the
\* failures are; when 3 attempts have failed it raises the exception of the
\* third attempt, never the generic "Max retries exceeded", and no 4th
\* attempt is started.
C3_AtMostThreeAttempts ==
    method \in RetryMethods =>
      /\ Len(trace) + (IF pc = "fetch" THEN 1 ELSE 0) <= 3
      /\ (method = "track_info" => nreq <= 3)
      /\ ret.exc # MaxRetriesExceeded
      /\ (Len(trace) = 3 /\ trace[3].kind # "ok") => (Failed /\ ret.exc = trace[3])

\* C3 witness: [500, 500, 500] raises the third 500
C3_Witness ==
    /\ Failed
    /\ method = "track_info"
    /\ Len(trace) = 3
    /\ \A j \in 1..3 : Is5xx(trace[j])
    /\ nreq = 3

\* C4: an attempt a (0-indexed, a < 2) failing with a status >= 500 is
\* followed by a sleep of delay * 2^a, 1 second for a = 0 and 2 seconds for
\* a = 1, a counting all attempts: a 5xx after a 429 waits 2 seconds.
C4_ServerErrorBackoff ==
    method \in RetryMethods =>
      \A j \in 1..Len(trace) :
         (j < 3 /\ Is5xx(trace[j])) =>
            /\ Len(sleeps) >= j
            /\ sleeps[j] = (IF j = 1 THEN 1 ELSE 2) * TicksPerSecond

\* C4 witness: a 429 on attempt 0, then a 5xx on attempt 1 that waits 2 seconds
C4_Witness ==
    /\ method \in RetryMethods
    /\ Len(trace) >= 2
    /\ Is429(trace[1])
    /\ Is5xx(trace[2])
    /\ Len(sleeps) = 2
    /\ sleeps[2] = 20

\* C5 as stated: every failure that is neither a 429 nor a 5xx, whatever its
\* type or status (a 401, 403 or 404 response as well as a network or parsing
\* exception), is retried with the exponential backoff and propagated only
\* after the cap of 3 attempts is reached.
C5_EveryOtherFailureRetried ==
    method \in RetryMethods =>
      /\ \A j \in 1..Len(trace) :
            (j < 3 /\ (Is4xx(trace[j]) \/ trace[j].kind = "other")) =>
               /\ Len(sleeps) >= j
               /\ sleeps[j] = (IF j = 1 THEN 1 ELSE 2) * TicksPerSecond
      /\ (Failed /\ (Is4xx(ret.exc) \/ ret.exc.kind = "other")) => Len(trace) = 3

\* C5 amended: a failure that is not a SpotifyException (network, parsing) is
\* retried with the backoff delay * 2^attempt and propagated only after the
\* cap of 3 attempts; a SpotifyException whose status is neither 429 nor
\* >= 500 (401, 403, 404) is re-raised at once, without sleep or retry.
C5_OnlyNonSpotifyRetried ==
    method \in RetryMethods =>
      /\ \A j \in 1..Len(trace) :
            /\ (j < 3 /\ trace[j].kind = "other") =>
                  /\ Len(sleeps) >= j
                  /\ sleeps[j] = (IF j = 1 THEN 1 ELSE 2) * TicksPerSecond
            /\ Is4xx(trace[j]) =>
                  /\ j = Len(trace)
                  /\ Len(sleeps) = j - 1
                  /\ Failed
                  /\ ret.exc = trace[j]
      /\ (Failed /\ ret.exc.kind = "other") => Len(trace) = 3

\* C5 witness: a network exception on attempt 0 is retried after 1 second,
\* the 404 of attempt 1 is raised at once
C5_Witness ==
    /\ Failed
    /\ method \in RetryMethods
    /\ Len(trace) = 2
    /\ trace[1].kind = "other"
    /\ Is4xx(trace[2])
    /\ sleeps = <<10>>

\* C6: get_top_tracks / get_top_artists return the concatenation of the items
\* of all n pages, in page order, and never a strict prefix of the pages;
\* when every request succeeds they issue exactly n page requests.
C6_PagesDrained ==
    (Done /\ method \in PagedMethods) =>
      /\ ret.value = Concat(pages)
      /\ (trace = <<Ok>> => nreq = Len(pages))

\* C6 witness: a result set of 3 pages drained in 3 requests
C6_Witness ==
    /\ Done
    /\ method \in PagedMethods
    /\ Len(pages) = 3
    /\ trace = <<Ok>>
    /\ nreq = 3
    /\ ret.value = <<1, 2, 3, 4, 5>>

\* C7: get_recently_played returns the items of every page of the play
\* history: when the first page carries a 'next' pointer the items of the
\* following pages are returned as well.
C7_RecentlyPlayedDrained ==
    (Done /\ method = "recently_played") => ret.value = Concat(pages)

\* the batch with number b (from 1) of a list of ids: ids[20(b-1) : 20b]
Slice(ids, b) == [k \in 1..(Min(20 * b, Len(ids)) - 20 * (b - 1)) |-> ids[20 * (b - 1) + k]]

\* C8: for n track ids get_audio_features_for_tracks issues exactly
\* ceil(n/20) batch requests, the consecutive slices ids[0:20], ids[20:40],
\* ... in input order, each of at most 20 ids and only the last one possibly
\* smaller, which together partition the input.
C8_BatchesPartitionInput ==
    method = "audio_features" =>
      /\ \A b \in 1..Len(batchReqs) :
            /\ batchReqs[b] = Slice(track_ids, b)
            /\ Len(batchReqs[b]) <= 20
            /\ b < Len(batchReqs) => Len(batchReqs[b]) = 20
      /\ Done =>
            /\ Len(batchReqs) = (Len(track_ids) + 19) \div 20
            /\ Concat(batchReqs) = track_ids

\* C8 witness: 45 ids go out in batches of 20, 20 and 5
C8_Witness ==
    /\ Done
    /\ method = "audio_features"
    /\ Len(track_ids) = 45
    /\ Len(batchReqs) = 3
    /\ Len(batchReqs[1]) = 20 /\ Len(batchReqs[2]) = 20 /\ Len(batchReqs[3]) = 5

\* the batch request covering position k of the input failed
InFailedBatch(k) == (((k - 1) \div 20) * 20) \in failedBatches

\* C9: when a batch request fails, per-item requests are issued for exactly
\* the ids of that batch, one per id in batch order, and for no id of a batch
\* that succeeded; the failed batch contributes the features of exactly the
\* ids whose own request succeeded with a non-empty answer, and the results
\* of the other batches are what their batch request answered.
C9_FallbackOnFailedBatchOnly ==
    (Done /\ method = "audio_features") =>
      LET Requested(id) == InFailedBatch(id)
          Kept(id) == IF InFailedBatch(id)
                      THEN id \notin badIds /\ id \notin nullIds
                      ELSE id \notin nullIds
      IN /\ itemReqs = SelectSeq(track_ids, Requested)
         /\ ret.value = SelectSeq(track_ids, Kept)
         /\ nreq = Len(batchReqs) + Len(itemReqs)

\* C9 witness: of 45 ids the second batch fails, and so does the request for
\* id 21; ids 21..40 are requested one by one, 21 is missing from the result
C9_Witness ==
    /\ Done
    /\ method = "audio_features"
    /\ Len(track_ids) = 45
    /\ failedBatches = {20}
    /\ badIds = {1, 21}
    /\ itemReqs = Range(20, 20)
    /\ Len(ret.value) = 44

\* C10: once a token has been obtained, get_audio_features_for_tracks never
\* raises, whatever batch and per-item requests fail: it returns features of
\* input ids, in input order, at most one per input id; ids that fail are
\* dropped and every id that does not fail is there.
C10_BestEffortResult ==
    method = "audio_features" =>
      /\ Failed => (ret.exc = TokenError /\ nreq = 0)
      /\ Done =>
            /\ \A k \in 1..Len(ret.value) : ret.value[k] \in 1..Len(track_ids)
            /\ \A j, k \in 1..Len(ret.value) : j < k => ret.value[j] < ret.value[k]
            /\ \A id \in 1..Len(track_ids) :
                  id \notin (badIds \cup nullIds) => \E k \in 1..Len(ret.value) : ret.value[k] = id

\* C10 witness: every batch of 45 ids has failed, two per-item requests have
\* failed and one id has no features; the other 42 are returned
C10_Witness ==
    /\ Done
    /\ method = "audio_features"
    /\ Len(track_ids) = 45
    /\ failedBatches = {0, 20, 40}
    /\ badIds = {1, 21}
    /\ nullIds = {2}
    /\ Len(ret.value) = 42

\* the last _get_client has returned a transport
ClientReturned ==
    /\ client_call.calls # <<>>
    /\ client_call.calls[Len(client_call.calls)].err = ""
\* the gate consultation the last _get_client made last
LastGate == client_call.calls[Len(client_call.calls)]

\* C23: after every return of _get_client the transport is bound to
\* self._access_token, which is the token the most recent consultation of
\* the gate returned; the transport is rebuilt only when there was none or
\* the valid token differs from the token of the transport, and is the one
\* found otherwise.
C23_TransportBoundToValidToken ==
    ClientReturned =>
      /\ spotipy_client = access_token
      /\ access_token = LastGate.token
      /\ client_call.built <=>
            (client_call.old = None \/ client_call.calls[1].token # client_call.old)
      /\ ~client_call.built => spotipy_client = client_call.old
\* a transport rebuilt because the gate had refreshed the token
C23_Witness ==
    /\ ClientReturned
    /\ client_call.old # None
    /\ client_call.built
    /\ Len(client_call.calls) = 2
    /\ client_call.calls[1].reqs = 1
    /\ spotipy_client # client_call.old
    /\ spotipy_client = LastGate.token

\* the first k pages, concatenated
FirstPages(k) == Concat(SubSeq(pages, 1, k))
\* no item occurs twice
NoDuplicate(items) ==
    \A i, j \in 1..Len(items) : items[i] = items[j] => i = j

\* C27: when a paginated fetch fails on a page request in the middle of a
\* drain and a later attempt succeeds, that attempt starts again at the
\* first page, and the list returned is the concatenation of all pages as
\* the successful attempt drained them: nothing of an abandoned attempt is
\* in it, no item is duplicated or missing.
C27_RetryRestartsDrain ==
    method \in PagedMethods =>
      /\ pc = "fetch" => tracks = FirstPages(page_idx - 1)
      /\ (Done /\ Len(trace) > 1) =>
            /\ ret.value = Concat(pages)
            /\ NoDuplicate(ret.value)
            /\ Len(ret.value) = Sum([p \in 1..Len(pages) |-> Len(pages[p])])
\* three pages: the first attempt fails on its second page request, the
\* second attempt drains all three pages
C27_Witness ==
    /\ Done
    /\ method \in PagedMethods
    /\ Len(pages) = 3
    /\ Len(trace) = 2
    /\ nreq = 5
    /\ ret.value = Concat(pages)

\* C28: in get_audio_features_for_tracks the retry policy never fires:
\* _retry_request makes one attempt per batch, no batch request is issued a
\* second time, and a batch answered 429 or >= 500 goes straight to the
\* per-item fallback, without Retry-After wait or backoff sleep.
C28_AudioNeverRetried ==
    method = "audio_features" =>
      /\ attempt = 0
      /\ sleeps = <<>>
      /\ trace \in {<<>>, <<Ok>>}
      /\ ret.status # "raise" \/ ret.exc = TokenError
      /\ \A j \in 1..Len(batchReqs) :
            batchReqs[j] = batch_at(track_ids, (j - 1) * BatchSize)
      /\ Len(batchReqs) * BatchSize < Len(track_ids) + BatchSize
      /\ batch_exc.kind # "ok" =>
            /\ pc = "items"
            /\ batch_i \in failedBatches
            /\ Len(batchReqs) = batch_i \div BatchSize + 1
\* a batch answered 429 with a Retry-After of 2 seconds, its ids being
\* asked for one by one
C28_Witness ==
    /\ method = "audio_features"
    /\ pc = "items"
    /\ Is429(batch_exc)
    /\ batch_exc.hint = 2
    /\ itemReqs # <<>>
    /\ sleeps = <<>>
    /\ attempt = 0

\* _retry_request makes at most max_retries invocations and max_retries - 1
\* sleeps, and has slept once less than it has invoked when it ends
RetryBounded ==
    method \in RetryMethods =>
      /\ attempt <= MaxRetries - 1
      /\ Len(trace) <= MaxRetries
      /\ Len(sleeps) <= MaxRetries - 1
      /\ pc = "fetch" => Len(sleeps) = Len(trace) /\ attempt = Len(trace)
      /\ (pc = "idle" /\ trace # <<>>) => Len(sleeps) = Len(trace) - 1
      /\ (Failed /\ Len(trace) = MaxRetries) => ret.exc = trace[MaxRetries]

\* C29: _retry_request always terminates when the wrapped call does: for
\* every sequence of outcomes it ends, returning or raising, after at most
\* max_retries invocations and at most max_retries - 1 sleeps, and does not
\* sleep after the last failed attempt, a 429 included.
C29_RetryTerminates ==
    /\ []RetryBounded
    /\ (pc = "fetch") ~> (pc = "idle" /\ ret.status # "none")
\* three attempts, the last one a 429: two sleeps, the 429 is raised
C29_Witness ==
    /\ Failed
    /\ method \in RetryMethods
    /\ Len(trace) = MaxRetries
    /\ Is429(trace[MaxRetries])
    /\ Len(sleeps) = MaxRetries - 1
    /\ ret.exc = trace[MaxRetries]

\* no time has passed and nothing was done since the last _get_client returned
JustEntered == pc \in {"fetch", "batch"} /\ nreq = 0
\* every token the gate returned in the last _get_client came from a record
\* outside the margin: the provider's lifetimes are above 60 seconds
FreshGates == \A i \in 1..Len(client_call.calls) : client_call.calls[i].fresh

\* C30: at a fixed instant, the provider issuing lifetimes above the
\* margin, a call of get_valid_token that follows a successful one sends no
\* token-endpoint request, leaves the store as it is and returns the same
\* access token; so one _get_client, which may consult the gate twice,
\* causes at most one refresh.
C30_GateIdempotent ==
    (ClientReturned /\ FreshGates /\ JustEntered) =>
      /\ \A resp \in RefreshResponses :
            LET g == get_valid_token(tokenFile, now, resp, nextTok) IN
            /\ g.err = ""
            /\ g.reqs = 0
            /\ g.file = tokenFile
            /\ g.token = LastGate.token
      /\ Sum([i \in 1..Len(client_call.calls) |-> client_call.calls[i].reqs]) <= 1
      /\ \A i \in 1..Len(client_call.calls) : client_call.calls[i].token = LastGate.token
\* a _get_client whose first consultation refreshed and whose second did not
C30_Witness ==
    /\ ClientReturned
    /\ FreshGates
    /\ JustEntered
    /\ Len(client_call.calls) = 2
    /\ client_call.calls[1].reqs = 1
    /\ client_call.calls[2].reqs = 0

(* --------------------------- properties of auth.py ---------------------- *)

\* the operation has returned or raised and its result is still in hand
Ended(o) == pc = "done" /\ op = o
\* whole seconds
Seconds(t) == t % TicksPerSecond = 0

\* C11: with times in whole seconds, is_token_expired answers true exactly
\* when expires_at <= now + 60: true for a token expiring at now + 60, false
\* for one expiring at now + 61.
C11_ExpiredWithinMargin ==
    (Ended("is_token_expired") /\ Seconds(now) /\ Seconds(argRec.expires_at))
        => /\ out.expired <=> (argRec.expires_at <= now + 60 * TicksPerSecond)
           /\ argRec.expires_at = now + 60 * TicksPerSecond => out.expired
           /\ argRec.expires_at = now + 61 * TicksPerSecond => ~out.expired
\* a token expiring exactly 60 seconds from now is reported expired
C11_Witness ==
    /\ Ended("is_token_expired")
    /\ argRec.expires_at = now + 60 * TicksPerSecond
    /\ out.expired

\* C12: the refresh token of the stored record is the one the provider
\* supplied last, in the code exchange or in a refresh answer: an answer
\* without one leaves the previous one in place, and a record that has a
\* refresh token still has one after get_valid_token has refreshed it.
C12_RefreshTokenKept ==
    /\ tokenFile.state = "ok" => tokenFile.refresh_token = providerRT
    /\ (Ended("get_valid_token") /\ pre.state = "ok" /\ pre.refresh_token # NoRT
            /\ tokenFile.state = "ok")
           => tokenFile.refresh_token # NoRT
\* a refresh whose answer had no refresh token: new access token, old refresh token
C12_Witness ==
    /\ Ended("get_valid_token")
    /\ out.err = ""
    /\ opReqs = 1
    /\ tokenFile.state = "ok"
    /\ tokenFile.access_token # pre.access_token
    /\ tokenFile.refresh_token = pre.refresh_token
    /\ tokenFile.refresh_token # NoRT

\* C13: when the stored token is expired, has a refresh token and the
\* refresh succeeds, get_valid_token has written the refreshed record to the
\* store when it returns, and returns the access token of that stored
\* record, which is not the stale one.
C13_RefreshedRecordStored ==
    (Ended("get_valid_token") /\ pre.state = "ok" /\ is_token_expired(pre, now)
        /\ pre.refresh_token # NoRT /\ out.err = "")
        => /\ opReqs = 1
           /\ load_tokens(tokenFile).found
           /\ tokenFile = save_tokens(out.rec)
           /\ out.token = tokenFile.access_token
           /\ out.token # pre.access_token
\* a refresh that succeeded and whose record is in the store
C13_Witness ==
    /\ Ended("get_valid_token")
    /\ is_token_expired(pre, now)
    /\ opReqs = 1
    /\ out.err = ""
    /\ out.token = tokenFile.access_token
    /\ tokenFile # pre

\* the errors of auth.py that are ValueError, as raised or by inheritance
ValueErrors ==
    {"NoToken", "NoRefreshToken", "RefreshFailed", "UnicodeDecodeError",
     "AuthorizationFailed", "NoCode"}
\* the store holds no record: no file, no JSON in it, or the record {}
Absent(file) == file.state \in {"missing", "corrupt", "empty"}

\* C14: when the store holds no record, or an expired one without a refresh
\* token, get_valid_token fails with the matching ValueError, has sent no
\* request to the token endpoint and has left the store as it was.
C14_NoTokenNoRequest ==
    /\ (Ended("get_valid_token") /\ Absent(pre))
           => out.err = "NoToken" /\ opReqs = 0 /\ tokenFile = pre
    /\ (Ended("get_valid_token") /\ pre.state = "ok" /\ is_token_expired(pre, now)
            /\ pre.refresh_token = NoRT)
           => out.err = "NoRefreshToken" /\ opReqs = 0 /\ tokenFile = pre
    /\ (Ended("get_valid_token") /\ ~load_tokens(pre).found)
           => out.err \in ValueErrors /\ opReqs = 0 /\ tokenFile = pre
\* an expired record without a refresh token
C14_Witness ==
    /\ Ended("get_valid_token")
    /\ pre.state = "ok"
    /\ is_token_expired(pre, now)
    /\ pre.refresh_token = NoRT
    /\ out.err = "NoRefreshToken"

\* C15: when the token endpoint answers the refresh request with a
\* non-success status, get_valid_token has sent exactly that one request,
\* fails, and leaves the store, the old record with its refresh token, as it
\* was.
C15_FailedRefreshLeavesStore ==
    (Ended("get_valid_token") /\ (out.err = "RefreshFailed" \/ (opReqs > 0 /\ out.err # "")))
        => /\ out.err = "RefreshFailed"
           /\ opReqs = 1
           /\ tokenFile = pre
           /\ tokenFile.state = "ok"
           /\ tokenFile.refresh_token # NoRT
\* a refresh that the token endpoint refused
C15_Witness ==
    /\ Ended("get_valid_token")
    /\ out.err = "RefreshFailed"
    /\ opReqs = 1
    /\ tokenFile = pre
    /\ is_token_expired(tokenFile, now)

\* C16: a save_tokens that is interrupted while it replaces a valid record
\* leaves a store from which load_tokens returns the old record or the new
\* one in full, never an absent or partial one.
C16_SaveAtomic ==
    (Ended("interrupted") /\ pre.state = "ok")
        => /\ load_tokens(tokenFile).found
           /\ tokenFile \in {pre, pending}

\* C17: load_tokens never raises for a missing or unparsable token file: it
\* returns None in both cases, and the file system is as before.
C17_LoadNeverRaises ==
    (Ended("load_tokens") /\ pre.state \in {"missing", "corrupt", "undecodable"})
        => /\ out.err = ""
           /\ ~out.found
           /\ tokenFile = pre

\* the URL gives k a value
HasParam(u, k) == \E i \in 1..Len(u) : u[i].k = k /\ u[i].v # ""
\* the first value the URL gives to k
FirstValue(u, k) ==
    LET first == CHOOSE i \in 1..Len(u) :
                     /\ u[i].k = k /\ u[i].v # ""
                     /\ \A j \in 1..(i - 1) : ~(u[j].k = k /\ u[j].v # "")
    IN u[first].v

\* C18: on a URL with a code and no error, extract_code_from_url returns the
\* first code value; with an error and no code it fails with the
\* authorization-denied error carrying the provider's error string; with
\* neither it fails with the missing-code error.
C18_ExtractCode ==
    Ended("extract_code_from_url")
        => /\ (HasParam(url, "code") /\ ~HasParam(url, "error"))
                 => out.err = "" /\ out.code = FirstValue(url, "code")
           /\ (HasParam(url, "error") /\ ~HasParam(url, "code"))
                 => /\ out.err = "AuthorizationFailed"
                    /\ out.msg = FirstValue(url, "error")
                    /\ out.code = ""
           /\ (~HasParam(url, "code") /\ ~HasParam(url, "error"))
                 => out.err = "NoCode" /\ out.code = ""
\* the provider refused: the URL has an error and no code
C18_Witness ==
    /\ Ended("extract_code_from_url")
    /\ HasParam(url, "error")
    /\ ~HasParam(url, "code")
    /\ out.err = "AuthorizationFailed"
    /\ out.msg = "access_denied"

\* C19: whenever the redirect URL has an error parameter, also together
\* with a code, extract_code_from_url fails with the authorization-denied
\* error: no code is returned and authenticate starts no token exchange.
C19_ErrorAlwaysDenied ==
    ((Ended("extract_code_from_url") \/ Ended("authenticate")) /\ HasParam(url, "error"))
        => /\ out.err = "AuthorizationFailed"
           /\ out.code = ""
           /\ opReqs = 0

\* the orders in which authenticate may have taken its steps
AuthenticateOrders ==
    {Prompted(b) \o t : b \in BOOLEAN,
                        t \in {<<"extract">>, <<"extract", "exchange">>,
                               <<"extract", "exchange", "save">>}}
\* how often authenticate took the step
Times(step) == Cardinality({i \in 1..Len(events) : events[i] = step})

\* C20: authenticate prompts for the redirect URL, extracts the code, sends
\* one token-exchange request and saves the record, in this order; when it
\* returns, the record returned is the record in the store; when the
\* extraction or the exchange fails the error is raised again, no exchange
\* follows a failed extraction, and the store is as it was.
C20_AuthenticateOrder ==
    Ended("authenticate")
        => /\ events \in AuthenticateOrders
           /\ opReqs = Times("exchange")
           /\ opReqs <= 1
           /\ out.err = ""
                 => /\ Times("save") = 1
                    /\ opReqs = 1
                    /\ load_tokens(tokenFile).found
                    /\ tokenFile = save_tokens(out.rec)
           /\ out.err # ""
                 => /\ Times("save") = 0
                    /\ tokenFile = pre
           /\ extract_code_from_url(url).err # ""
                 => /\ out.err = extract_code_from_url(url).err
                    /\ opReqs = 0
           /\ (extract_code_from_url(url).err = "" /\ out.err # "")
                 => out.err = "ExchangeFailed" /\ opReqs = 1
\* an authentication that went through: the record returned is in the store
C20_Witness ==
    /\ Ended("authenticate")
    /\ out.err = ""
    /\ events[Len(events)] = "save"
    /\ tokenFile = save_tokens(out.rec)
    /\ tokenFile # pre

\* C22: when the stored record is not expired, expires_at > now + 60,
\* get_valid_token returns the stored access token, sends no token-endpoint
\* request and leaves the token store as it is.
C22_ValidTokenReturned ==
    (Ended("get_valid_token") /\ pre.state = "ok"
        /\ pre.expires_at > now + 60 * TicksPerSecond)
        => /\ out.err = ""
           /\ out.token = pre.access_token
           /\ opReqs = 0
           /\ tokenFile = pre
\* a valid record, here one without a refresh token
C22_Witness ==
    /\ Ended("get_valid_token")
    /\ pre.state = "ok"
    /\ pre.refresh_token = NoRT
    /\ pre.expires_at > now + 60 * TicksPerSecond
    /\ out.token = pre.access_token
    /\ opReqs = 0
    /\ tokenFile = pre

\* C21: the bootstrap script launches the interactive flow exactly when
\* the store yields no record: a record that is present is only reported
\* (no browser, no prompt, no token-endpoint request, token file as it was,
\* whether or not the record is expired or has a refresh token), and without
\* a record authenticate(interactive = True) is run exactly once.
C21_BootstrapLaunchesWhenAbsent ==
    Ended("authenticate.py")
        => /\ Loadable(pre)
                 => /\ events = <<"load_tokens", "report">>
                    /\ opReqs = 0
                    /\ tokenFile = pre
           /\ ~Loadable(pre)
                 => /\ Times("browser") = 1
                    /\ Times("prompt") = 1
                    /\ Times("report") = 0

\* C24: the token record is never deleted automatically: once the store
\* has held a loadable record, it holds one after every operation that was
\* not interrupted (get_valid_token with a refresh that succeeds or fails,
\* authenticate that succeeds or fails, a call of the API client, the
\* bootstrap script).
C24_RecordNeverDeleted ==
    /\ (hadRecord /\ pc # "saving") => Loadable(tokenFile)
    /\ (pc = "done" /\ op # "interrupted" /\ Loadable(pre)) => Loadable(tokenFile)
\* the store keeps its record through an authentication that fails
C24_Witness ==
    /\ Ended("authenticate")
    /\ out.err = "ExchangeFailed"
    /\ hadRecord
    /\ Loadable(pre)
    /\ tokenFile = pre

\* C25: every error raised while fetching data reaches the caller: an
\* exception that leaves one of the fetch functions, fetch_audio_features
\* included, is what fetch_all_data raises.
C25_ErrorsPropagate ==
    pipeline.pc = "done" =>
      \A k \in 1..Len(fetched) :
         fetched[k].status = "raise" => pipeline.ret = Raised(fetched[k].exc)

\* the process has been through a refresh that the provider granted
Refreshed(p) == procs[p].fresh.state = "ok"
\* every process is out of get_valid_token
AllOut == \A p \in Procs : procs[p].pc \in {"returned", "failed"}

\* C26: nothing keeps two processes from racing a refresh over the same
\* expired token file: each sends the refresh token of the record it loaded,
\* each writes the record it got, and when both are out the file holds the
\* record of the one that wrote last (or, the writes overlapping, no record);
\* that record can carry a refresh token the provider has rotated away in
\* the refresh of the other process.
C26_LastWriterWins ==
    /\ \A p \in Procs :
          procs[p].sent # NoRT =>
             /\ procs[p].sent = procs[p].loaded.refresh_token
             /\ Refreshed(p) => procs[p].fresh.refresh_token # NoRT
             /\ Refreshed(p) => procs[p].fresh.access_token # procs[p].loaded.access_token
    /\ (AllOut /\ lastWriter # 0) =>
          \/ tokenFile = save_tokens(procs[lastWriter].fresh)
          \/ procs[lastWriter].overlap /\ tokenFile = CorruptFile
    /\ (AllOut /\ lastWriter = 0) => hadRecord = Loadable(tokenFile)
\* both processes loaded the same record, both sent its refresh token, both
\* wrote; the file holds the record of the last writer, with the refresh
\* token the provider replaced in the refresh of the other
C26_Witness ==
    /\ \A p \in Procs : procs[p].pc = "returned" /\ Refreshed(p)
    /\ procs[1].loaded = procs[2].loaded
    /\ procs[1].sent = procs[2].sent
    /\ lastWriter # 0
    /\ tokenFile = save_tokens(procs[lastWriter].fresh)
    /\ tokenFile.refresh_token = procs[lastWriter].sent
    /\ tokenFile.refresh_token # providerRT

====
